---------------------------- MODULE Spec2Model ----------------------------
(***************************************************************************)
(* Model of the ingestion-and-indexing pipeline of src/pdf_extractor.py:   *)
(* the batch driver process_pdfs_for_mcp with its per-file loop, the       *)
(* record/error persistence of save_extraction, the identifier scheme of   *)
(* generate_document_id, the index builder create_mcp_index, and the pure  *)
(* text functions chunk_content and classify_document_type.                *)
(*                                                                         *)
(* Texts, file stems and file names are sequences of one-character         *)
(* strings, so that lower(), strip(), split() and substring search are     *)
(* computed as the Python code computes them.                              *)
(***************************************************************************)
EXTENDS Integers, Sequences, FiniteSets, TLC

VARIABLES
    \* ---- process_pdfs_for_mcp (batch driver) ----
    now,              \* wall clock, in ticks (TicksPerSecond ticks per second)
    pc,               \* position of process_pdfs_for_mcp
    tree,             \* the *.pdf files of the source tree of this run
    todo,             \* files rglob has not yet yielded
    attempts,         \* file -> number of extract_content calls in this run
    result,           \* local `result` of the loop body (last extraction)
    save_errors,      \* number of "Error saving extraction" log lines (line 210)
    all_documents,    \* accumulator of successful records
    processed_count,
    failed_count,
    fs,               \* files under the output root: path -> content
    out_root,         \* the output root directory: absent, present or blocked
    \* ---- chunk_content ----
    raw_text,         \* text before the clean-up of extract_content
    full_text,        \* normalized text handed to chunk_content
    chunk_size,       \* MCPPDFExtractor.chunk_size
    chunks,           \* value returned by chunk_content
    cpc,              \* position of the chunking pipeline
    \* ---- classify_document_type ----
    filename,         \* argument filename
    text_sample,      \* argument text_sample
    doc_type,         \* returned type
    kpc,              \* position of the classifier harness
    \* ---- create_mcp_index on arbitrary record lists ----
    documents,        \* argument of create_mcp_index
    built,            \* returned index
    ipc,              \* position of the index harness
    \* ---- extract_keywords ----
    kw_text,          \* argument text
    max_keywords,     \* argument max_keywords
    kw_result,        \* returned list of keywords
    wpc,              \* position of the keyword harness
    \* ---- APCCaseStudyServer (mcp_server.py): reads ----
    disk,             \* the files and symbolic links of the machine
    file_cache,       \* self._file_cache: str(file_path) -> parsed content
    request,          \* the request being served
    response,         \* what the handler returned or raised
    \* ---- cached_async (utils.py) ----
    maxsize,          \* argument maxsize of the decorator
    cache,            \* the dict `cache`: its items in insertion order
    calls             \* task -> the wrapper call it is in or was last in

batchVars == <<now, pc, tree, todo, attempts, result, save_errors, all_documents,
               processed_count, failed_count, fs, out_root>>
chunkVars == <<raw_text, full_text, chunk_size, chunks, cpc>>
classVars == <<filename, text_sample, doc_type, kpc>>
indexVars == <<documents, built, ipc>>
keywordVars == <<kw_text, max_keywords, kw_result, wpc>>
serveVars == <<disk, file_cache, request, response>>
cacheVars == <<maxsize, cache, calls>>
vars == <<batchVars, chunkVars, classVars, indexVars, keywordVars, serveVars,
          cacheVars>>

(***************************************************************************)
(* Bounds                                                                  *)
(***************************************************************************)
MaxFiles == 2         \* files in a source tree
MaxNow == 2           \* last clock tick
MaxLen == 8           \* characters of a raw text
MaxBudget == 3        \* largest chunk budget tried
MaxDocs == 2          \* records handed to create_mcp_index directly
MaxFrags == 2         \* fragments a file name or text sample is made of
MaxPieces == 4        \* pieces a text handed to extract_keywords is made of
MaxKeywords == 2      \* largest max_keywords tried
MaxParts == 3         \* pieces the path of a resource URI is made of
MaxSize == 2          \* largest maxsize of cached_async tried
MaxTasks == 2         \* tasks calling a cached coroutine concurrently

(***************************************************************************)
(* Generic helpers                                                         *)
(***************************************************************************)
Range(s) == {s[i] : i \in 1..Len(s)}

RECURSIVE SumSeq(_)
SumSeq(s) == IF s = <<>> THEN 0 ELSE Head(s) + SumSeq(Tail(s))

RECURSIVE Flatten(_)
Flatten(ss) == IF ss = <<>> THEN <<>> ELSE Head(ss) \o Flatten(Tail(ss))

SeqsUpTo(S, n) == UNION {[1..k -> S] : k \in 0..n}

\* d[k] with a new binding, as a Python dict assignment d[k] = v
Put(d, k, v) == [x \in DOMAIN d \cup {k} |-> IF x = k THEN v ELSE d[x]]

EmptyMap == [x \in {} |-> 0]

(***************************************************************************)
(* Characters and the Python string primitives used by the extractor       *)
(***************************************************************************)
NL == "\n"
SP == " "
Whitespace == {SP, NL, "\t"}

\* str.lstrip() / str.rstrip() / str.strip()
RECURSIVE LStrip(_)
LStrip(s) == IF s # <<>> /\ Head(s) \in Whitespace THEN LStrip(Tail(s)) ELSE s

RECURSIVE RStrip(_)
RStrip(s) ==
    IF s # <<>> /\ s[Len(s)] \in Whitespace THEN RStrip(SubSeq(s, 1, Len(s) - 1)) ELSE s

Strip(s) == RStrip(LStrip(s))

\* str.split() without argument: the maximal runs of non-whitespace
RECURSIVE SplitWords(_, _, _)
SplitWords(s, cur, acc) ==
    IF s = <<>> THEN (IF cur = <<>> THEN acc ELSE Append(acc, cur))
    ELSE IF Head(s) \in Whitespace
         THEN SplitWords(Tail(s), <<>>, IF cur = <<>> THEN acc ELSE Append(acc, cur))
         ELSE SplitWords(Tail(s), Append(cur, Head(s)), acc)

Words(s) == SplitWords(s, <<>>, <<>>)

\* str.split('\n\n'): cut at every non-overlapping blank line, left to right
RECURSIVE SplitBlank(_, _, _)
SplitBlank(s, cur, acc) ==
    IF s = <<>> THEN Append(acc, cur)
    ELSE IF Len(s) >= 2 /\ s[1] = NL /\ s[2] = NL
         THEN SplitBlank(SubSeq(s, 3, Len(s)), <<>>, Append(acc, cur))
         ELSE SplitBlank(Tail(s), Append(cur, Head(s)), acc)

SplitParagraphs(s) == SplitBlank(s, <<>>, <<>>)

\* '\n\n'.join(texts)
RECURSIVE JoinBlank(_)
JoinBlank(ts) ==
    IF ts = <<>> THEN <<>>
    ELSE IF Len(ts) = 1 THEN ts[1]
    ELSE ts[1] \o <<NL, NL>> \o JoinBlank(Tail(ts))

\* length of the run of newlines at the head of s
RECURSIVE NewlineRun(_)
NewlineRun(s) == IF s # <<>> /\ Head(s) = NL THEN 1 + NewlineRun(Tail(s)) ELSE 0

\* faulty variant: every three newlines become two, left to right, whatever
\* follows them
RECURSIVE CollapseTriples(_)
CollapseTriples(s) ==
    IF s = <<>> THEN <<>>
    ELSE IF NewlineRun(s) >= 3
    THEN <<NL, NL>> \o CollapseTriples(SubSeq(s, 4, Len(s)))
    ELSE <<Head(s)>> \o CollapseTriples(Tail(s))

\* re.sub(r'\n{3,}', '\n\n', s)
RECURSIVE CollapseNewlines(_)
CollapseNewlines(s) ==
    IF s = <<>> THEN <<>>
    ELSE LET k == NewlineRun(s) IN
         IF k >= 3 THEN <<NL, NL>> \o CollapseNewlines(SubSeq(s, k + 1, Len(s)))
         ELSE IF k >= 1 THEN SubSeq(s, 1, k) \o CollapseNewlines(SubSeq(s, k + 1, Len(s)))
         ELSE <<Head(s)>> \o CollapseNewlines(Tail(s))

\* the clean-up of extract_content
Normalize(s) == Strip(CollapseNewlines(s))

(***************************************************************************)
(* chunk_content                                                           *)
(***************************************************************************)
\* the list comprehension: stripped, non-empty pieces of text.split('\n\n')
RECURSIVE KeepNonEmpty(_)
KeepNonEmpty(ps) ==
    IF ps = <<>> THEN <<>>
    ELSE IF Strip(Head(ps)) # <<>> THEN <<Strip(Head(ps))>> \o KeepNonEmpty(Tail(ps))
    ELSE KeepNonEmpty(Tail(ps))

Paragraphs(text) == KeepNonEmpty(SplitParagraphs(text))

\* faulty variant: chunks are numbered from one
NewChunkFromOne(cs, text, words) ==
    [chunk_id |-> Len(cs) + 1, text |-> Strip(text), word_count |-> words]

NewChunk(cs, text, words) ==
    [chunk_id |-> Len(cs), text |-> Strip(text), word_count |-> words]

ChunkState0 == [chunks |-> <<>>, current_chunk |-> <<>>, current_words |-> 0]

\* faulty variant: closes a chunk only after it has already outgrown the budget
ChunkStepLate(st, para, size) ==
    LET para_words == Len(Words(para)) IN
    IF st.current_words > size /\ st.current_chunk # <<>>
    THEN [chunks |-> Append(st.chunks,
                            NewChunk(st.chunks, st.current_chunk, st.current_words)),
          current_chunk |-> para,
          current_words |-> para_words]
    ELSE [chunks |-> st.chunks,
          current_chunk |-> IF st.current_chunk # <<>>
                            THEN st.current_chunk \o <<NL, NL>> \o para ELSE para,
          current_words |-> st.current_words + para_words]

\* faulty variant: closes a chunk as soon as the budget is reached (>= for >)
ChunkStepEager(st, para, size) ==
    LET para_words == Len(Words(para)) IN
    IF st.current_words + para_words >= size /\ st.current_chunk # <<>>
    THEN [chunks |-> Append(st.chunks,
                            NewChunk(st.chunks, st.current_chunk, st.current_words)),
          current_chunk |-> para,
          current_words |-> para_words]
    ELSE [chunks |-> st.chunks,
          current_chunk |-> IF st.current_chunk # <<>>
                            THEN st.current_chunk \o <<NL, NL>> \o para ELSE para,
          current_words |-> st.current_words + para_words]

\* faulty variant: the paragraph that closes a chunk is not carried into the next one
ChunkStepDrop(st, para, size) ==
    LET para_words == Len(Words(para)) IN
    IF st.current_words + para_words > size /\ st.current_chunk # <<>>
    THEN [chunks |-> Append(st.chunks,
                            NewChunk(st.chunks, st.current_chunk, st.current_words)),
          current_chunk |-> <<>>,
          current_words |-> 0]
    ELSE [chunks |-> st.chunks,
          current_chunk |-> IF st.current_chunk # <<>>
                            THEN st.current_chunk \o <<NL, NL>> \o para ELSE para,
          current_words |-> st.current_words + para_words]

\* faulty variant: the running word count is not restarted when a chunk is closed
ChunkStepNoReset(st, para, size) ==
    LET para_words == Len(Words(para)) IN
    IF st.current_words + para_words > size /\ st.current_chunk # <<>>
    THEN [chunks |-> Append(st.chunks,
                            NewChunk(st.chunks, st.current_chunk, st.current_words)),
          current_chunk |-> para,
          current_words |-> st.current_words + para_words]
    ELSE [chunks |-> st.chunks,
          current_chunk |-> IF st.current_chunk # <<>>
                            THEN st.current_chunk \o <<NL, NL>> \o para ELSE para,
          current_words |-> st.current_words + para_words]

\* one iteration of `for para in paragraphs`
ChunkStep(st, para, size) ==
    LET para_words == Len(Words(para)) IN
    IF st.current_words + para_words > size /\ st.current_chunk # <<>>
    THEN [chunks |-> Append(st.chunks,
                            NewChunk(st.chunks, st.current_chunk, st.current_words)),
          current_chunk |-> para,
          current_words |-> para_words]
    ELSE [chunks |-> st.chunks,
          current_chunk |-> IF st.current_chunk # <<>>
                            THEN st.current_chunk \o <<NL, NL>> \o para ELSE para,
          current_words |-> st.current_words + para_words]

RECURSIVE ChunkLoop(_, _, _)
ChunkLoop(st, paras, size) ==
    IF paras = <<>> THEN st
    ELSE ChunkLoop(ChunkStep(st, Head(paras), size), Tail(paras), size)

chunk_content(text, size) ==
    LET st == ChunkLoop(ChunkState0, Paragraphs(text), size) IN
    IF st.current_chunk # <<>>
    THEN Append(st.chunks, NewChunk(st.chunks, st.current_chunk, st.current_words))
    ELSE st.chunks

\* utils.extract_text_from_json_document on a record holding these chunks
extract_text_from_json_document(cs) == JoinBlank([i \in 1..Len(cs) |-> cs[i].text])

(***************************************************************************)
(* classify_document_type                                                  *)
(***************************************************************************)
UpperCase == <<"A", "B", "C", "D", "E", "F", "G", "H", "I", "J", "K", "L", "M",
               "N", "O", "P", "Q", "R", "S", "T", "U", "V", "W", "X", "Y", "Z">>
LowerCase == <<"a", "b", "c", "d", "e", "f", "g", "h", "i", "j", "k", "l", "m",
               "n", "o", "p", "q", "r", "s", "t", "u", "v", "w", "x", "y", "z">>
Digits == {"0", "1", "2", "3", "4", "5", "6", "7", "8", "9"}

\* str.lower(), character by character
LowerChar(c) ==
    IF \E i \in 1..Len(UpperCase) : UpperCase[i] = c
    THEN LowerCase[CHOOSE i \in 1..Len(UpperCase) : UpperCase[i] = c]
    ELSE c

Lower(s) == [i \in 1..Len(s) |-> LowerChar(s[i])]

\* Python's `needle in hay` on strings
Contains(hay, needle) ==
    \E i \in 0..(Len(hay) - Len(needle)) : SubSeq(hay, i + 1, i + Len(needle)) = needle

\* the dict `patterns`, in insertion order
patterns == <<
    [type |-> "invoice",
     keywords |-> <<<<"i", "n", "v", "o", "i", "c", "e">>,
                   <<"r", "e", "c", "e", "i", "p", "t">>,
                   <<"b", "i", "l", "l">>>>],
    [type |-> "report",
     keywords |-> <<<<"r", "e", "p", "o", "r", "t">>,
                   <<"a", "n", "a", "l", "y", "s", "i", "s">>,
                   <<"r", "e", "v", "i", "e", "w">>>>],
    [type |-> "contract",
     keywords |-> <<<<"c", "o", "n", "t", "r", "a", "c", "t">>,
                   <<"a", "g", "r", "e", "e", "m", "e", "n", "t">>>>],
    [type |-> "manual",
     keywords |-> <<<<"m", "a", "n", "u", "a", "l">>,
                   <<"g", "u", "i", "d", "e">>,
                   <<"d", "o", "c", "u", "m", "e", "n", "t", "a", "t", "i", "o", "n">>>>],
    [type |-> "presentation",
     keywords |-> <<<<"p", "r", "e", "s", "e", "n", "t", "a", "t", "i", "o", "n">>,
                   <<"s", "l", "i", "d", "e", "s">>>>]>>

\* any(keyword in s for keyword in keywords)
AnyKeywordIn(keywords, s) == \E i \in 1..Len(keywords) : Contains(s, keywords[i])

\* `for doc_type, keywords in patterns.items()`: each rule tests the file
\* name and then the text before the next rule is looked at
RECURSIVE ClassifyLoop(_, _, _)
ClassifyLoop(rules, text_lower, filename_lower) ==
    IF rules = <<>> THEN "document"
    ELSE IF AnyKeywordIn(Head(rules).keywords, filename_lower) THEN Head(rules).type
    ELSE IF AnyKeywordIn(Head(rules).keywords, text_lower) THEN Head(rules).type
    ELSE ClassifyLoop(Tail(rules), text_lower, filename_lower)

classify_document_type(sample, fname) == ClassifyLoop(patterns, Lower(sample), Lower(fname))

(***************************************************************************)
(* Time, identifiers and paths                                             *)
(***************************************************************************)
TicksPerSecond == 2   \* clock ticks per wall-clock second
NamePartCap == 30     \* file_path.stem[:30]

\* datetime.now().strftime('%Y%m%d_%H%M%S'): the instant cut to its second
Strftime(t) == t \div TicksPerSecond

\* re.sub(r'[^a-z0-9]', '_', name_part), character by character
SanitizeChar(c) == IF c \in Range(LowerCase) \cup Digits THEN c ELSE "_"

\* generate_document_id: f"{name_part}_{timestamp}"; the timestamp has a
\* fixed width, so the pair determines the string and conversely
generate_document_id(stem, t) ==
    LET cut == SubSeq(stem, 1, IF Len(stem) < NamePartCap THEN Len(stem) ELSE NamePartCap)
        name_part == [i \in 1..Len(cut) |-> SanitizeChar(LowerChar(cut[i]))]
    IN [name |-> name_part, ts |-> Strftime(t)]

\* a path below the output root (or below the source root): directory
\* components and the file name without its extension
MkPath(dir, name) == [dir |-> dir, name |-> name]

IndexPath == MkPath(<<>>, <<"m", "c", "p", "_", "i", "n", "d", "e", "x">>)
FolderMapPath == MkPath(<<>>, <<"f", "o", "l", "d", "e", "r", "_", "m", "a", "p">>)

\* f"error_{timestamp}": the timestamp is one token of the name
ErrorName(t) == <<"e", "r", "r", "o", "r", "_", ToString(Strftime(t))>>

\* str(Path(relative_path).parent), with "." replaced by "root"
FolderOf(relative_path) ==
    IF relative_path.dir = <<>> THEN <<"root">> ELSE relative_path.dir

(***************************************************************************)
(* save_extraction                                                         *)
(***************************************************************************)
\* json_path of save_extraction(result, output_dir, relative_dir) at instant t
JsonPath(res, output_dir, relative_dir, t) ==
    IF res.status = "success"
    THEN MkPath(output_dir \o relative_dir, res.metadata.filename)
    ELSE MkPath(output_dir \o relative_dir, ErrorName(t))

\* the file system after save_extraction; io_ok = FALSE is an OSError inside
\* its try block, which is logged and turned into the return value False
save_extraction(files, res, output_dir, relative_dir, t, io_ok) ==
    IF io_ok THEN Put(files, JsonPath(res, output_dir, relative_dir, t), res) ELSE files

(***************************************************************************)
(* create_mcp_index                                                        *)
(***************************************************************************)
EmptyIndex(n, t) ==
    [created_at |-> t, document_count |-> n,
     documents |-> EmptyMap, by_type |-> EmptyMap,
     by_folder |-> EmptyMap, keywords |-> EmptyMap]

\* d.setdefault(k, []).append(v)
AppendTo(d, k, v) == Put(d, k, IF k \in DOMAIN d THEN Append(d[k], v) ELSE <<v>>)

RECURSIVE IndexKeywords(_, _, _)
IndexKeywords(kmap, kws, doc_id) ==
    IF kws = <<>> THEN kmap
    ELSE IndexKeywords(AppendTo(kmap, Head(kws), doc_id), Tail(kws), doc_id)

\* faulty variant: the documents map is keyed by the file name instead of the id
IndexStepByName(index, doc) ==
    IF doc.status # "success" THEN index
    ELSE LET doc_id == doc.document_id
             metadata == doc.metadata
         IN [index EXCEPT
               !.documents = Put(@, [name |-> metadata.filename, ts |-> 0],
                                 [filename |-> metadata.filename,
                                  path |-> metadata.relative_path,
                                  type |-> metadata.document_type]),
               !.by_type = AppendTo(@, metadata.document_type, doc_id),
               !.by_folder = AppendTo(@, FolderOf(metadata.relative_path), doc_id),
               !.keywords = IndexKeywords(@, metadata.keywords, doc_id)]

\* faulty variant: each entry of the documents map records when the index
\* was built
IndexStepStamped(index, doc) ==
    IF doc.status # "success" THEN index
    ELSE LET doc_id == doc.document_id
             metadata == doc.metadata
         IN [index EXCEPT
               !.documents = Put(@, doc_id,
                                 [filename |-> metadata.filename,
                                  path |-> metadata.relative_path,
                                  type |-> metadata.document_type,
                                  indexed_at |-> index.created_at]),
               !.by_type = AppendTo(@, metadata.document_type, doc_id),
               !.by_folder = AppendTo(@, FolderOf(metadata.relative_path), doc_id),
               !.keywords = IndexKeywords(@, metadata.keywords, doc_id)]

\* one iteration of `for doc in documents`
IndexStep(index, doc) ==
    IF doc.status # "success" THEN index
    ELSE LET doc_id == doc.document_id
             metadata == doc.metadata
         IN [index EXCEPT
               !.documents = Put(@, doc_id,
                                 [filename |-> metadata.filename,
                                  path |-> metadata.relative_path,
                                  type |-> metadata.document_type]),
               !.by_type = AppendTo(@, metadata.document_type, doc_id),
               !.by_folder = AppendTo(@, FolderOf(metadata.relative_path), doc_id),
               !.keywords = IndexKeywords(@, metadata.keywords, doc_id)]

RECURSIVE IndexLoop(_, _)
IndexLoop(index, docs) ==
    IF docs = <<>> THEN index ELSE IndexLoop(IndexStep(index, Head(docs)), Tail(docs))

create_mcp_index(docs, t) == IndexLoop(EmptyIndex(Len(docs), t), docs)

(***************************************************************************)
(* the folder map of process_pdfs_for_mcp                                  *)
(***************************************************************************)
\* faulty variant: the per-type count is set to one instead of incremented
FolderMapStepTypeOnce(folder_map, doc) ==
    IF doc.status # "success" THEN folder_map
    ELSE LET folder == FolderOf(doc.metadata.relative_path)
             type == doc.metadata.document_type
             old == IF folder \in DOMAIN folder_map THEN folder_map[folder]
                    ELSE [count |-> 0, types |-> EmptyMap]
         IN Put(folder_map, folder,
                [count |-> old.count + 1, types |-> Put(old.types, type, 1)])

FolderMapStep(folder_map, doc) ==
    IF doc.status # "success" THEN folder_map
    ELSE LET folder == FolderOf(doc.metadata.relative_path)
             type == doc.metadata.document_type
             old == IF folder \in DOMAIN folder_map THEN folder_map[folder]
                    ELSE [count |-> 0, types |-> EmptyMap]
         IN Put(folder_map, folder,
                [count |-> old.count + 1,
                 types |-> Put(old.types, type,
                               IF type \in DOMAIN old.types THEN old.types[type] + 1 ELSE 1)])

RECURSIVE FolderMapLoop(_, _)
FolderMapLoop(folder_map, docs) ==
    IF docs = <<>> THEN folder_map
    ELSE FolderMapLoop(FolderMapStep(folder_map, Head(docs)), Tail(docs))

BuildFolderMap(docs) == FolderMapLoop(EmptyMap, docs)

(***************************************************************************)
(* extract_content, as far as the batch driver depends on it               *)
(***************************************************************************)
\* the *.pdf files a source tree may hold: directory and stem
\* ("mcp_index.pdf" is the source file whose record is named like the index)
Dirs == {<<>>, <<"root">>}
Stems == {<<"A">>, <<"a">>, <<"m", "c", "p", "_", "i", "n", "d", "e", "x">>}
SourceFiles ==
    {f \in {[dir |-> d, stem |-> st] : d \in Dirs, st \in Stems} :
        f.dir = <<>> \/ f.stem = <<"a">>}

\* what the content of a readable file may give rise to
BatchTypes == {"report", "document"}
BatchKeywords == {<<>>, <<"Alpha">>}

NoResult == [status |-> "none"]

\* extract_content(pdf_path, relative_path): `readable` = FALSE is any
\* exception inside its try block (fitz.open on a corrupt file, ...).
\* metadata.filename is kept without the ".pdf" every file name ends with,
\* which is what save_extraction takes from it (Path(filename).stem).
extract_content(f, readable, type, kws, t) ==
    IF readable
    THEN [status |-> "success",
          document_id |-> generate_document_id(f.stem, t),
          metadata |-> [document_id |-> generate_document_id(f.stem, t),
                        filename |-> f.stem,
                        relative_path |-> MkPath(f.dir, f.stem),
                        document_type |-> type,
                        keywords |-> kws]]
    ELSE [status |-> "error", error |-> "cannot open", file |-> MkPath(f.dir, f.stem)]

(***************************************************************************)
(* process_pdfs_for_mcp                                                    *)
(***************************************************************************)
Finished == {"done", "crashed", "no_source"}

\* the output root before a run: not there yet, there, or impossible to
\* create (a file of that name, a read-only parent, ...)
RootStates == {"absent", "present", "blocked"}

\* the return values save_extraction can have: its mkdir(parents=True)
\* raises when the output root cannot be created
SaveOutcomes(root) == IF root = "blocked" THEN {FALSE} ELSE BOOLEAN

\* the output root after save_extraction; a refused call has failed at
\* mkdir (made = FALSE) or after it, at open or json.dump (made = TRUE)
RootAfterSave(root, io_ok, made) ==
    IF root = "blocked" THEN "blocked"
    ELSE IF io_ok \/ made THEN "present"
    ELSE root

\* the outcomes of open(path, 'w') directly below the output root, which
\* process_pdfs_for_mcp itself never creates
ArtifactOutcomes(root) == IF root = "present" THEN BOOLEAN ELSE {FALSE}

otherVars == <<chunkVars, classVars, indexVars, keywordVars, serveVars,
               cacheVars>>

\* lines 267-280: a run starts on some source tree
Start ==
    /\ pc = "idle"
    /\ \E source_exists \in BOOLEAN, t \in SUBSET SourceFiles :
         /\ Cardinality(t) <= MaxFiles
         /\ IF source_exists
            THEN /\ pc' = "loop"
                 /\ tree' = t
                 /\ todo' = t
                 /\ attempts' = [f \in t |-> 0]
                 /\ result' = NoResult
                 /\ save_errors' = 0
                 /\ all_documents' = <<>>
                 /\ processed_count' = 0
                 /\ failed_count' = 0
            ELSE /\ pc' = "no_source"
                 /\ tree' = {}
                 /\ todo' = {}
                 /\ attempts' = EmptyMap
                 /\ result' = NoResult
                 /\ save_errors' = 0
                 /\ UNCHANGED <<all_documents, processed_count, failed_count>>
    /\ UNCHANGED <<now, fs, out_root, otherVars>>

\* faulty variant: extract_content without its try/except, so that the exception
\* of an unreadable file leaves the loop and the function
ProcessFileUncaught ==
    /\ pc = "loop"
    /\ \E f \in todo, readable \in BOOLEAN, type \in BatchTypes,
          kws \in BatchKeywords, io_ok \in SaveOutcomes(out_root), made \in BOOLEAN :
         LET res == extract_content(f, readable, type, kws, now) IN
         /\ todo' = todo \ {f}
         /\ attempts' = [attempts EXCEPT ![f] = @ + 1]
         /\ IF res.status = "success"
            THEN /\ result' = res
                 /\ out_root' = RootAfterSave(out_root, io_ok, made)
                 /\ save_errors' = IF io_ok THEN save_errors ELSE save_errors + 1
                 /\ fs' = save_extraction(fs, res, <<>>, f.dir, now, io_ok)
                 /\ processed_count' = IF io_ok THEN processed_count + 1
                                        ELSE processed_count
                 /\ all_documents' = IF io_ok THEN Append(all_documents, res)
                                     ELSE all_documents
                 /\ UNCHANGED <<failed_count, pc>>
            ELSE /\ pc' = "crashed"
                 /\ UNCHANGED <<result, save_errors, fs, out_root, processed_count,
                                all_documents, failed_count>>
    /\ UNCHANGED <<now, tree, otherVars>>

\* faulty variant: a successful record joins the accumulator whether or not
\* save_extraction could write it
ProcessFileAppendUnsaved ==
    /\ pc = "loop"
    /\ \E f \in todo, readable \in BOOLEAN, type \in BatchTypes,
          kws \in BatchKeywords, io_ok \in SaveOutcomes(out_root), made \in BOOLEAN :
         LET res == extract_content(f, readable, type, kws, now) IN
         /\ todo' = todo \ {f}
         /\ attempts' = [attempts EXCEPT ![f] = @ + 1]
         /\ result' = res
         /\ out_root' = RootAfterSave(out_root, io_ok, made)
         /\ save_errors' = IF io_ok THEN save_errors ELSE save_errors + 1
         /\ IF res.status = "success"
            THEN /\ fs' = save_extraction(fs, res, <<>>, f.dir, now, io_ok)
                 /\ processed_count' = processed_count + 1
                 /\ all_documents' = Append(all_documents, res)
                 /\ UNCHANGED failed_count
            ELSE /\ failed_count' = failed_count + 1
                 /\ fs' = save_extraction(fs, res, <<"errors">>, f.dir, now, io_ok)
                 /\ UNCHANGED <<processed_count, all_documents>>
    /\ UNCHANGED <<now, pc, tree, otherVars>>

\* lines 283-299: one iteration of the loop over rglob("*.pdf")
ProcessFile ==
    /\ pc = "loop"
    /\ \E f \in todo, readable \in BOOLEAN, type \in BatchTypes,
          kws \in BatchKeywords, io_ok \in SaveOutcomes(out_root), made \in BOOLEAN :
         LET res == extract_content(f, readable, type, kws, now) IN
         /\ todo' = todo \ {f}
         /\ attempts' = [attempts EXCEPT ![f] = @ + 1]
         /\ result' = res
         /\ out_root' = RootAfterSave(out_root, io_ok, made)
         /\ save_errors' = IF io_ok THEN save_errors ELSE save_errors + 1
         /\ IF res.status = "success"
            THEN /\ fs' = save_extraction(fs, res, <<>>, f.dir, now, io_ok)
                 /\ processed_count' = IF io_ok THEN processed_count + 1
                                        ELSE processed_count
                 /\ all_documents' = IF io_ok THEN Append(all_documents, res)
                                     ELSE all_documents
                 /\ UNCHANGED failed_count
            ELSE /\ failed_count' = failed_count + 1
                 /\ fs' = save_extraction(fs, res, <<"errors">>, f.dir, now, io_ok)
                 /\ UNCHANGED <<processed_count, all_documents>>
    /\ UNCHANGED <<now, pc, tree, otherVars>>

\* lines 301-309: the loop is exhausted; the index is built and written
\* only when there is at least one record.  io_ok = FALSE is an OSError of
\* open()/json.dump, which nothing catches.
WriteIndex ==
    /\ pc = "loop"
    /\ todo = {}
    /\ \E io_ok \in ArtifactOutcomes(out_root) :
         IF all_documents # <<>>
         THEN IF io_ok
              THEN /\ fs' = Put(fs, IndexPath, create_mcp_index(all_documents, now))
                   /\ pc' = "folder_map"
              ELSE /\ pc' = "crashed"
                   /\ UNCHANGED fs
         ELSE /\ pc' = "folder_map"
              /\ UNCHANGED fs
    /\ UNCHANGED <<now, tree, todo, attempts, result, save_errors, all_documents,
                   processed_count, failed_count, out_root, otherVars>>

\* lines 311-330: the folder map is built and written
WriteFolderMap ==
    /\ pc = "folder_map"
    /\ \E io_ok \in ArtifactOutcomes(out_root) :
         IF io_ok
         THEN /\ fs' = Put(fs, FolderMapPath, BuildFolderMap(all_documents))
              /\ pc' = "summary"
         ELSE /\ pc' = "crashed"
              /\ UNCHANGED fs
    /\ UNCHANGED <<now, tree, todo, attempts, result, save_errors, all_documents,
                   processed_count, failed_count, out_root, otherVars>>

\* lines 332-338: the summary; line 337 reads index_path, a local that is
\* bound only inside `if all_documents:` (UnboundLocalError otherwise)
Summary ==
    /\ pc = "summary"
    /\ pc' = IF all_documents # <<>> THEN "done" ELSE "crashed"
    /\ UNCHANGED <<now, tree, todo, attempts, result, save_errors, all_documents,
                   processed_count, failed_count, fs, out_root, otherVars>>

\* the wall clock advances; every instant the run reads (identifiers, error
\* file names, created_at) is read at the loop, so that is where time passes
Tick ==
    /\ pc = "loop"
    /\ now < MaxNow
    /\ now' = now + 1
    /\ UNCHANGED <<pc, tree, todo, attempts, result, save_errors, all_documents,
                   processed_count, failed_count, fs, out_root, otherVars>>

\* process_pdfs_for_mcp has not been called
BatchLocals ==
    /\ now = 0 /\ pc = "idle" /\ tree = {} /\ todo = {}
    /\ attempts = EmptyMap /\ result = NoResult /\ save_errors = 0
    /\ all_documents = <<>> /\ processed_count = 0 /\ failed_count = 0

BatchIdle == BatchLocals /\ fs = EmptyMap /\ out_root = "absent"

\* before the first run nothing has been written below the output root
BatchInit == BatchLocals /\ fs = EmptyMap /\ out_root \in RootStates

ChunkIdle ==
    /\ raw_text = <<>> /\ full_text = <<>> /\ chunk_size = 0 /\ chunks = <<>>
    /\ cpc = "off"

ClassIdle == filename = <<>> /\ text_sample = <<>> /\ doc_type = "" /\ kpc = "off"

IndexIdle == documents = <<>> /\ built = EmptyIndex(0, 0) /\ ipc = "off"

KeywordIdle == kw_text = <<>> /\ max_keywords = 0 /\ kw_result = <<>> /\ wpc = "off"

\* no server has been constructed
ServeIdle ==
    /\ disk = EmptyMap /\ file_cache = EmptyMap
    /\ request = [kind |-> "none"] /\ response = [kind |-> "none"]

\* nothing has been decorated
CacheIdle == maxsize = 0 /\ cache = <<>> /\ calls = EmptyMap

Init == BatchInit /\ ChunkIdle /\ ClassIdle /\ IndexIdle /\ KeywordIdle
    /\ ServeIdle /\ CacheIdle

Next == Start \/ ProcessFile \/ WriteIndex \/ WriteFolderMap \/ Summary \/ Tick

Spec == Init /\ [][Next]_vars

(***************************************************************************)
(* chunk_content on every normalized text up to MaxLen characters          *)
(***************************************************************************)
TextChars == {"a", SP, NL}

ChunkInit ==
    /\ BatchIdle /\ ClassIdle /\ IndexIdle /\ KeywordIdle
    /\ ServeIdle /\ CacheIdle
    /\ raw_text \in SeqsUpTo(TextChars, MaxLen)
    /\ chunk_size \in 1..MaxBudget
    /\ full_text = <<>>
    /\ chunks = <<>>
    /\ cpc = "raw"

\* extract_content line 142: the clean-up of the concatenated page texts
NormalizeText ==
    /\ cpc = "raw"
    /\ full_text' = Normalize(raw_text)
    /\ cpc' = "normalized"
    /\ UNCHANGED <<raw_text, chunk_size, chunks, batchVars, classVars, indexVars,
                   keywordVars, serveVars, cacheVars>>

\* extract_content line 168: chunks = self.chunk_content(full_text)
ChunkText ==
    /\ cpc = "normalized"
    /\ chunks' = chunk_content(full_text, chunk_size)
    /\ cpc' = "chunked"
    /\ UNCHANGED <<raw_text, full_text, chunk_size, batchVars, classVars, indexVars,
                   keywordVars, serveVars, cacheVars>>

ChunkNext == NormalizeText \/ ChunkText

ChunkSpec == ChunkInit /\ [][ChunkNext]_vars

(***************************************************************************)
(* classify_document_type on file names and text samples put together      *)
(* from a few fragments                                                    *)
(***************************************************************************)
Fragments == {
    <<"B", "i", "l", "l">>,
    <<"r", "e", "p", "o", "r", "t">>,
    <<"C", "O", "N", "T", "R", "A", "C", "T">>,
    <<"G", "u", "i", "d", "e">>,
    <<"s", "l", "i", "d", "e", "s">>,
    <<"x">>}

Samples == {Flatten(fs_) : fs_ \in SeqsUpTo(Fragments, MaxFrags)}

ClassInit ==
    /\ BatchIdle /\ ChunkIdle /\ IndexIdle /\ KeywordIdle
    /\ ServeIdle /\ CacheIdle
    /\ filename \in Samples
    /\ text_sample \in Samples
    /\ doc_type = ""
    /\ kpc = "args"

\* extract_content line 157
Classify ==
    /\ kpc = "args"
    /\ doc_type' = classify_document_type(text_sample, filename)
    /\ kpc' = "done"
    /\ UNCHANGED <<filename, text_sample, batchVars, chunkVars, indexVars,
                   keywordVars, serveVars, cacheVars>>

ClassNext == Classify

ClassSpec == ClassInit /\ [][ClassNext]_vars

(***************************************************************************)
(* create_mcp_index on every list of up to MaxDocs records                 *)
(***************************************************************************)
Instants == {0, TicksPerSecond}

RecordUniverse ==
    {extract_content(f, r, type, kws, t) :
        f \in SourceFiles, r \in BOOLEAN, type \in BatchTypes,
        kws \in BatchKeywords, t \in Instants}

IndexInit ==
    /\ BatchIdle /\ ChunkIdle /\ ClassIdle /\ KeywordIdle
    /\ ServeIdle /\ CacheIdle
    /\ documents \in SeqsUpTo(RecordUniverse, MaxDocs)
    /\ built = EmptyIndex(0, 0)
    /\ ipc = "args"

\* process_pdfs_for_mcp line 303, on an arbitrary argument
BuildIndex ==
    /\ ipc = "args"
    /\ built' = create_mcp_index(documents, 0)
    /\ ipc' = "done"
    /\ UNCHANGED <<documents, batchVars, chunkVars, classVars, keywordVars,
                   serveVars, cacheVars>>

IndexNext == BuildIndex

IndexSpec == IndexInit /\ [][IndexNext]_vars

(***************************************************************************)
(* extract_keywords                                                        *)
(***************************************************************************)
stop_words == {
    <<"t", "h", "e">>, <<"a">>, <<"a", "n">>, <<"a", "n", "d">>,
    <<"o", "r">>, <<"b", "u", "t">>, <<"i", "n">>, <<"o", "n">>,
    <<"a", "t">>, <<"t", "o">>, <<"f", "o", "r">>, <<"o", "f">>,
    <<"w", "i", "t", "h">>, <<"b", "y">>, <<"f", "r", "o", "m">>,
    <<"i", "s">>, <<"a", "r", "e">>, <<"w", "a", "s">>,
    <<"w", "e", "r", "e">>, <<"b", "e", "e", "n">>, <<"b", "e">>,
    <<"h", "a", "v", "e">>, <<"h", "a", "s">>, <<"h", "a", "d">>,
    <<"w", "i", "l", "l">>}
\* the character classes [A-Z], [a-zA-Z] and \w
UpperLetters == Range(UpperCase)
Letters == Range(UpperCase) \cup Range(LowerCase)
WordChars == Letters \cup Digits \cup {"_"}

\* \b at the gap in front of position i: exactly one side is a word character
WordAt(s, i) == i \in 1..Len(s) /\ s[i] \in WordChars
Boundary(s, i) == WordAt(s, i - 1) # WordAt(s, i)

\* the lengths with which \b[A-Z][a-zA-Z]{2,}\b matches at position i
MatchLengths(s, i) ==
    {n \in 3..(Len(s) - i + 1) :
        /\ Boundary(s, i)
        /\ s[i] \in UpperLetters
        /\ \A k \in 1..(n - 1) : s[i + k] \in Letters
        /\ Boundary(s, i + n)}

\* the quantifier is greedy: the longest match is taken
MatchLen(s, i) ==
    LET ns == MatchLengths(s, i)
    IN  IF ns = {} THEN 0 ELSE CHOOSE n \in ns : \A m \in ns : m <= n

\* re.findall from position i: leftmost matches, not overlapping
RECURSIVE FindAll(_, _)
FindAll(s, i) ==
    IF i > Len(s) THEN <<>>
    ELSE LET n == MatchLen(s, i)
         IN  IF n > 0 THEN <<SubSeq(s, i, i + n - 1)>> \o FindAll(s, i + n)
             ELSE FindAll(s, i + 1)

\* faulty variant: the stop-word test compares the word as written
CountWordNoLower(word_freq, word) ==
    IF word \in stop_words THEN word_freq
    ELSE IF \E i \in 1..Len(word_freq) : word_freq[i].word = word
    THEN [i \in 1..Len(word_freq) |->
            IF word_freq[i].word = word
            THEN [word_freq[i] EXCEPT !.count = @ + 1] ELSE word_freq[i]]
    ELSE Append(word_freq, [word |-> word, count |-> 1])

\* lines 61-62; word_freq is the dict as the list of its items in insertion
\* order
CountWord(word_freq, word) ==
    IF Lower(word) \in stop_words THEN word_freq
    ELSE IF \E i \in 1..Len(word_freq) : word_freq[i].word = word
    THEN [i \in 1..Len(word_freq) |->
            IF word_freq[i].word = word
            THEN [word_freq[i] EXCEPT !.count = @ + 1] ELSE word_freq[i]]
    ELSE Append(word_freq, [word |-> word, count |-> 1])

RECURSIVE CountLoop(_, _)
CountLoop(words, word_freq) ==
    IF words = <<>> THEN word_freq
    ELSE CountLoop(Tail(words), CountWord(word_freq, Head(words)))

\* faulty variant: an item is put in front of the items of equal count
InsertDescBeforeTies(sorted, item) ==
    LET k == Cardinality({i \in 1..Len(sorted) : sorted[i].count > item.count})
    IN  SubSeq(sorted, 1, k) \o <<item>> \o SubSeq(sorted, k + 1, Len(sorted))

\* sorted(..., key=count, reverse=True) is stable: an item goes behind every
\* item of greater or equal count that came before it
InsertDesc(sorted, item) ==
    LET k == Cardinality({i \in 1..Len(sorted) : sorted[i].count >= item.count})
    IN  SubSeq(sorted, 1, k) \o <<item>> \o SubSeq(sorted, k + 1, Len(sorted))

RECURSIVE SortedDesc(_, _)
SortedDesc(items, sorted) ==
    IF items = <<>> THEN sorted
    ELSE SortedDesc(Tail(items), InsertDesc(sorted, Head(items)))

\* s[:n] for n >= 0
Slice(s, n) == SubSeq(s, 1, IF n < Len(s) THEN n ELSE Len(s))

extract_keywords(text, n) ==
    LET words == FindAll(text, 1)
        word_freq == CountLoop(words, <<>>)
        sorted_words == Slice(SortedDesc(word_freq, <<>>), n)
    IN  [i \in 1..Len(sorted_words) |-> sorted_words[i].word]

(***************************************************************************)
(* extract_keywords on texts put together from a few pieces                *)
(***************************************************************************)
Pieces == {
    <<"A", "b", "c", SP>>,
    <<"D", "e", "f", SP>>,
    <<"X", "y", "z", SP>>,
    <<"T", "h", "e", SP>>,
    <<"A", "b">>,
    <<"_">>}
KeywordTexts == {Flatten(ps) : ps \in SeqsUpTo(Pieces, MaxPieces)}

KeywordInit ==
    /\ BatchIdle /\ ChunkIdle /\ ClassIdle /\ IndexIdle
    /\ ServeIdle /\ CacheIdle
    /\ kw_text \in KeywordTexts
    /\ max_keywords \in 0..MaxKeywords
    /\ kw_result = <<>>
    /\ wpc = "args"

\* extract_content line 148, with an explicit max_keywords
ExtractKeywords ==
    /\ wpc = "args"
    /\ kw_result' = extract_keywords(kw_text, max_keywords)
    /\ wpc' = "done"
    /\ UNCHANGED <<kw_text, max_keywords, batchVars, chunkVars, classVars,
                   indexVars, serveVars, cacheVars>>

KeywordNext == ExtractKeywords

KeywordSpec == KeywordInit /\ [][KeywordNext]_vars

(***************************************************************************)
(* APCCaseStudyServer (mcp_server.py): paths and the files of the machine  *)
(***************************************************************************)
URI_PREFIX == <<"f", "i", "l", "e", ":", "/", "/", "/">>
JSON_EXTENSION == <<".", "j", "s", "o", "n">>

\* self.resource_dir (resolved in __init__) and the directories below it;
\* a path is the sequence of its names, a name a sequence of characters
resource_dir == <<<<"s", "r", "v">>, <<"r", "e", "s">>>>
user_data_dir == resource_dir \o <<<<"u", "s", "e", "r", "_", "d", "a", "t", "a">>>>
examples_dir ==
    resource_dir \o
    <<<<"a", "p", "c", "_", "e", "x", "a", "m", "p", "l", "e", "_",
        "s", "u", "b", "m", "i", "s", "s", "i", "o", "n", "s">>>>
guides_dir ==
    resource_dir \o
    <<<<"a", "p", "c", "_", "s", "u", "b", "m", "i", "s", "s", "i", "o", "n",
        "_", "g", "u", "i", "d", "e", "s">>>>

\* a machine: absolute path -> directory, file or symbolic link.  ex.json
\* is an example submission, me.json is no valid JSON, and secret.json lies
\* next to the resource root, outside of it.
PlainMachine ==
    Put(Put(Put(Put(Put(Put(Put(Put(Put(EmptyMap,
        <<>>, [type |-> "dir"]),
        <<<<"s", "r", "v">>>>, [type |-> "dir"]),
        resource_dir, [type |-> "dir"]),
        user_data_dir, [type |-> "dir"]),
        examples_dir, [type |-> "dir"]),
        guides_dir, [type |-> "dir"]),
        examples_dir \o <<<<"e", "x", ".", "j", "s", "o", "n">>>>,
            [type |-> "file", large |-> FALSE, valid_json |-> TRUE]),
        user_data_dir \o <<<<"m", "e", ".", "j", "s", "o", "n">>>>,
            [type |-> "file", large |-> FALSE, valid_json |-> FALSE]),
        <<<<"s", "r", "v">>,
          <<"s", "e", "c", "r", "e", "t", ".", "j", "s", "o", "n">>>>,
            [type |-> "file", large |-> FALSE, valid_json |-> TRUE])

\* the same with a symbolic link `out` below the resource root that points
\* out of it
LinkedMachine ==
    Put(PlainMachine, resource_dir \o <<<<"o", "u", "t">>>>,
        [type |-> "link", target |-> <<<<"s", "r", "v">>>>])

Machines == {PlainMachine, LinkedMachine}

\* s.split(c)
RECURSIVE SplitOn(_, _)
SplitOn(s, c) ==
    LET hits == {i \in 1..Len(s) : s[i] = c} IN
    IF hits = {} THEN <<s>>
    ELSE LET i == CHOOSE j \in hits : \A k \in hits : j <= k
         IN  <<SubSeq(s, 1, i - 1)>> \o SplitOn(SubSeq(s, i + 1, Len(s)), c)

StartsWith(s, prefix) ==
    Len(s) >= Len(prefix) /\ SubSeq(s, 1, Len(prefix)) = prefix

IsPathPart(p) == p # <<>> /\ p # <<".">>

\* the parts pathlib keeps of a path string: empty segments and "." go,
\* ".." stays
PathParts(s) == SelectSeq(SplitOn(s, "/"), IsPathPart)

\* base / s: an absolute s replaces the base
JoinPath(base, s) ==
    IF s # <<>> /\ s[1] = "/" THEN PathParts(s) ELSE base \o PathParts(s)

Parent(path) == IF path = <<>> THEN <<>> ELSE SubSeq(path, 1, Len(path) - 1)

IsLink(d, path) == path \in DOMAIN d /\ d[path].type = "link"

\* Path.resolve() (not strict) of the parts, from the directory cur: ".."
\* leaves the directory reached so far, a symbolic link is followed, a name
\* that does not exist is kept
RECURSIVE resolve(_, _, _)
resolve(d, cur, parts) ==
    IF parts = <<>> THEN cur
    ELSE LET p == Head(parts) IN
         IF p = <<".", ".">> THEN resolve(d, Parent(cur), Tail(parts))
         ELSE IF IsLink(d, Append(cur, p))
         THEN resolve(d, d[Append(cur, p)].target, Tail(parts))
         ELSE resolve(d, Append(cur, p), Tail(parts))

\* path.relative_to(base) succeeds
IsRelativeTo(path, base) ==
    Len(path) >= Len(base) /\ SubSeq(path, 1, Len(base)) = base

\* the path walk of the operating system (stat, open) from the directory
\* cur: every name on the way must exist, and all but the last must lead
\* to a directory
RECURSIVE Walk(_, _, _)
Walk(d, cur, parts) ==
    IF cur \notin DOMAIN d THEN [found |-> FALSE]
    ELSE IF parts = <<>> THEN [found |-> TRUE, path |-> cur]
    ELSE IF d[cur].type # "dir" THEN [found |-> FALSE]
    ELSE LET p == Head(parts) IN
         IF p = <<".", ".">> THEN Walk(d, Parent(cur), Tail(parts))
         ELSE IF IsLink(d, Append(cur, p))
         THEN Walk(d, d[Append(cur, p)].target, Tail(parts))
         ELSE Walk(d, Append(cur, p), Tail(parts))

\* file_path.exists() and file_path.is_file()
Exists(d, parts) == Walk(d, <<>>, parts).found
IsFile(d, parts) ==
    Exists(d, parts) /\ d[Walk(d, <<>>, parts).path].type = "file"

\* Path.suffix: from the last dot of the name, unless that dot is the first
\* or the last character
Suffix(name) ==
    LET dots == {i \in 1..Len(name) : name[i] = "."} IN
    IF dots = {} THEN <<>>
    ELSE LET i == CHOOSE j \in dots : \A k \in dots : k <= j
         IN  IF i > 1 /\ i < Len(name) THEN SubSeq(name, i, Len(name)) ELSE <<>>

\* faulty variant: the path is compared with the resource directory as it
\* is written, without resolve()
UnresolvedPathIsSecure(d, file_path) == IsRelativeTo(file_path, resource_dir)

\* _validate_path_security does not raise
PathIsSecure(d, file_path) ==
    IsRelativeTo(resolve(d, <<>>, file_path), resource_dir)

\* _is_valid_json_file
is_valid_json_file(d, file_path) ==
    /\ IsFile(d, file_path)
    /\ file_path # <<>> /\ Suffix(file_path[Len(file_path)]) = JSON_EXTENSION
    /\ \A i \in 1..Len(file_path) : file_path[i][1] # "."

\* handle_read_resource(uri): an exception, or the content, which is named
\* by the place of the file that open() reads
handle_read_resource(d, uri) ==
    IF ~StartsWith(uri, URI_PREFIX)
    THEN [kind |-> "error", error |-> "ValueError: Invalid URI scheme"]
    ELSE LET path_str == SubSeq(uri, Len(URI_PREFIX) + 1, Len(uri))
             file_path == JoinPath(resource_dir, path_str)
         IN  IF ~PathIsSecure(d, file_path)
             THEN [kind |-> "error",
                   error |-> "ValueError: Path outside resource directory"]
             ELSE IF ~Exists(d, file_path)
             THEN [kind |-> "error", error |-> "FileNotFoundError"]
             ELSE IF ~is_valid_json_file(d, file_path)
             THEN [kind |-> "error", error |-> "ValueError: Not a valid JSON file"]
             ELSE [kind |-> "content", file |-> Walk(d, <<>>, file_path).path]

\* _read_json_file_async(file_path) of a path that exists: the new cache
\* and the data or the exception
read_json_file_async(d, file_cache_, file_path) ==
    IF file_path \in DOMAIN file_cache_
    THEN [cache |-> file_cache_, ok |-> TRUE, data |-> file_cache_[file_path]]
    ELSE LET place == Walk(d, <<>>, file_path).path IN
         IF d[place].type # "file" \/ d[place].large \/ ~d[place].valid_json
         THEN [cache |-> file_cache_, ok |-> FALSE]
         ELSE [cache |-> Put(file_cache_, file_path, [file |-> place]),
               ok |-> TRUE, data |-> [file |-> place]]

\* _handle_read_file_from_directory(directory, filename, file_type): the
\* new cache and the text returned
handle_read_file_from_directory(d, file_cache_, directory, filename_) ==
    IF filename_ = <<>>
    THEN [cache |-> file_cache_,
          out |-> [kind |-> "error_text", error |-> "Please provide a filename"]]
    ELSE LET file_path == JoinPath(directory, filename_ \o JSON_EXTENSION) IN
         IF ~Exists(d, file_path)
         THEN [cache |-> file_cache_,
               out |-> [kind |-> "error_text", error |-> "not found"]]
         ELSE LET read == read_json_file_async(d, file_cache_, file_path) IN
              [cache |-> read.cache,
               out |-> IF read.ok THEN [kind |-> "text", file |-> read.data.file]
                       ELSE [kind |-> "error_text", error |-> "Error reading"]]

(***************************************************************************)
(* handle_read_resource on URIs put together from a few pieces             *)
(***************************************************************************)
Schemes == {
    <<"f", "i", "l", "e", ":", "/", "/", "/">>,
    <<"h", "t", "t", "p", ":", "/", "/">>}

UriPieces == {
    <<"/">>,
    <<".", ".", "/">>,
    <<"o", "u", "t", "/">>,
    <<"s", "r", "v", "/">>,
    <<"a", "p", "c", "_", "e", "x", "a", "m", "p", "l", "e", "_", "s", "u",
      "b", "m", "i", "s", "s", "i", "o", "n", "s", "/">>,
    <<"e", "x", ".", "j", "s", "o", "n">>,
    <<"s", "e", "c", "r", "e", "t", ".", "j", "s", "o", "n">>}

Uris == {scheme \o Flatten(ps) : scheme \in Schemes, ps \in SeqsUpTo(UriPieces, MaxParts)}

\* what no read of the server touches
outsideServe == <<batchVars, chunkVars, classVars, indexVars, keywordVars,
                  cacheVars>>

\* a server has been constructed and a resources/read request has arrived
ResourceInit ==
    /\ BatchIdle /\ ChunkIdle /\ ClassIdle /\ IndexIdle /\ KeywordIdle
    /\ CacheIdle
    /\ disk \in Machines
    /\ file_cache = EmptyMap
    /\ request \in {[kind |-> "resource", uri |-> u] : u \in Uris}
    /\ response = [kind |-> "none"]

ReadResource ==
    /\ request.kind = "resource"
    /\ response = [kind |-> "none"]
    /\ response' = handle_read_resource(disk, request.uri)
    /\ UNCHANGED <<disk, file_cache, request, outsideServe>>

ResourceSpec == ResourceInit /\ [][ReadResource]_vars

(***************************************************************************)
(* handle_call_tool: the two tools that read a file of a directory         *)
(***************************************************************************)
ReadTools == {"read_example_submission", "read_submission_guide"}

\* the directory handle_call_tool hands to the generic handler
ToolDirectory(name) ==
    IF name = "read_example_submission" THEN examples_dir ELSE guides_dir

ToolFilenames == {
    <<>>,
    <<"e", "x">>,
    <<"n", "o", "p", "e">>,
    <<".", ".", "/", ".", ".", "/", "s", "e", "c", "r", "e", "t">>,
    <<"/", "s", "r", "v", "/", "s", "e", "c", "r", "e", "t">>,
    <<".", ".", "/", "o", "u", "t", "/", "s", "e", "c", "r", "e", "t">>,
    <<".", ".", "/", "u", "s", "e", "r", "_", "d", "a", "t", "a", "/", "m",
      "e">>}

\* a server has been constructed
ToolInit ==
    /\ BatchIdle /\ ChunkIdle /\ ClassIdle /\ IndexIdle /\ KeywordIdle
    /\ CacheIdle
    /\ disk \in Machines
    /\ file_cache = EmptyMap
    /\ request = [kind |-> "none"]
    /\ response = [kind |-> "none"]

\* handle_call_tool(name, {"filename": filename}) for one of the two tools
CallReadTool ==
    \E name \in ReadTools, fname \in ToolFilenames :
        LET done == handle_read_file_from_directory(
                        disk, file_cache, ToolDirectory(name), fname)
        IN  /\ request' = [kind |-> "tool", name |-> name, filename |-> fname]
            /\ response' = done.out
            /\ file_cache' = done.cache
            /\ UNCHANGED <<disk, outsideServe>>

ToolSpec == ToolInit /\ [][CallReadTool]_vars

(***************************************************************************)
(* cached_async (utils.py): tasks of one event loop calling the wrapper    *)
(***************************************************************************)
Tasks == 1..MaxTasks
CallArgs == {"A", "B", "K"}

\* key = str(args) + str(kwargs), for one positional argument and no
\* keyword argument
KeyOf(a) == <<a, "{}">>

CachedKeys(c) == {c[i].key : i \in 1..Len(c)}

\* cache[key] = result: a key already there keeps its place
SetItem(c, key, value) ==
    IF key \in CachedKeys(c)
    THEN [i \in 1..Len(c) |->
            IF c[i].key = key THEN [key |-> key, value |-> value] ELSE c[i]]
    ELSE Append(c, [key |-> key, value |-> value])

CacheInit ==
    /\ BatchIdle /\ ChunkIdle /\ ClassIdle /\ IndexIdle /\ KeywordIdle
    /\ ServeIdle
    /\ maxsize \in 1..MaxSize
    /\ cache = <<>>
    /\ calls = [t \in Tasks |-> [at |-> "idle"]]

\* lines 181-184: a task calls the wrapper; a cached key returns at once,
\* any other key starts the wrapped coroutine, which suspends the task
WrapperCall(t) ==
    /\ calls[t].at # "awaiting"
    /\ \E a \in CallArgs :
         LET key == KeyOf(a) IN
         calls' = [calls EXCEPT ![t] =
                     IF key \in CachedKeys(cache)
                     THEN [at |-> "returned", key |-> key, hit |-> TRUE]
                     ELSE [at |-> "awaiting", key |-> key]]
    /\ UNCHANGED <<maxsize, cache, batchVars, chunkVars, classVars,
                   indexVars, keywordVars, serveVars>>

\* lines 184-189: the wrapped coroutine has returned; the task evicts the
\* item inserted first when the cache is full (cache.pop(next(iter(cache)))),
\* stores and returns without suspending again
WrapperResume(t) ==
    /\ calls[t].at = "awaiting"
    /\ cache' = SetItem(IF Len(cache) >= maxsize THEN Tail(cache) ELSE cache,
                        calls[t].key, calls[t].key[1])
    /\ calls' = [calls EXCEPT ![t] =
                   [at |-> "returned", key |-> calls[t].key, hit |-> FALSE]]
    /\ UNCHANGED <<maxsize, batchVars, chunkVars, classVars,
                   indexVars, keywordVars, serveVars>>

\* line 184: the wrapped coroutine raises; the exception leaves the wrapper
WrapperRaise(t) ==
    /\ calls[t].at = "awaiting"
    /\ calls' = [calls EXCEPT ![t] = [at |-> "raised", key |-> calls[t].key]]
    /\ UNCHANGED <<maxsize, cache, batchVars, chunkVars, classVars,
                   indexVars, keywordVars, serveVars>>

\* line 191: wrapper.cache_clear()
CacheClear ==
    /\ cache # <<>>
    /\ cache' = <<>>
    /\ UNCHANGED <<maxsize, calls, batchVars, chunkVars, classVars,
                   indexVars, keywordVars, serveVars>>

CacheNext ==
    \/ \E t \in Tasks : WrapperCall(t) \/ WrapperResume(t) \/ WrapperRaise(t)
    \/ CacheClear

CacheSpec == CacheInit /\ [][CacheNext]_vars

(***************************************************************************)
(* Properties of chunk_content (ChunkSpec)                                 *)
(***************************************************************************)
ChunkWordCounts == [i \in 1..Len(chunks) |-> chunks[i].word_count]
ChunkTexts == [i \in 1..Len(chunks) |-> chunks[i].text]

\* the paragraphs found in the text of chunk i
ChunkParas(i) == KeepNonEmpty(SplitParagraphs(chunks[i].text))

\* number of paragraphs in the chunks before chunk i
RECURSIVE ParasBefore(_)
ParasBefore(i) == IF i <= 1 THEN 0 ELSE ParasBefore(i - 1) + Len(ChunkParas(i - 1))

\* C2: the word counts of the chunks add up to the number of
\* whitespace-separated words of the normalized text, and every chunk's
\* word_count is the number of words of its own text.
C2_WordCountConservation ==
    cpc = "chunked" =>
        /\ SumSeq(ChunkWordCounts) = Len(Words(full_text))
        /\ \A i \in 1..Len(chunks) : chunks[i].word_count = Len(Words(chunks[i].text))

C2_Witness ==
    /\ cpc = "chunked"
    /\ Len(chunks) >= 2
    /\ \E i \in 1..Len(chunks) : chunks[i].word_count >= 2

\* C3: no paragraph is split: the j-th paragraph of chunk i is, whole, the
\* paragraph of the input at that position, every input paragraph is
\* covered by exactly one chunk, and a chunk over the budget holds exactly
\* one paragraph.
C3_NoParagraphSplit ==
    cpc = "chunked" =>
        LET P == Paragraphs(full_text) IN
        /\ ParasBefore(Len(chunks) + 1) = Len(P)
        /\ \A i \in 1..Len(chunks) :
             /\ Len(ChunkParas(i)) >= 1
             /\ \A j \in 1..Len(ChunkParas(i)) :
                  /\ ParasBefore(i) + j <= Len(P)
                  /\ ChunkParas(i)[j] = P[ParasBefore(i) + j]
             /\ chunks[i].word_count > chunk_size => Len(ChunkParas(i)) = 1

\* a paragraph alone over the budget, next to another chunk
C3_Witness ==
    /\ cpc = "chunked"
    /\ Len(chunks) >= 2
    /\ \E i \in 1..Len(chunks) :
         chunks[i].word_count > chunk_size /\ Len(ChunkParas(i)) = 1

\* C4: greedy packing without back-filling: a chunk was closed only because
\* the first paragraph of the next chunk did not fit, the words keep their
\* order, and three one-word paragraphs under a budget of two give the
\* chunks [paragraphs 1-2] and [paragraph 3].
C4_GreedyPacking ==
    cpc = "chunked" =>
        /\ \A i \in 1..(Len(chunks) - 1) :
             chunks[i].word_count + Len(Words(ChunkParas(i + 1)[1])) > chunk_size
        /\ Flatten([i \in 1..Len(chunks) |-> Words(chunks[i].text)]) = Words(full_text)
        /\ (Paragraphs(full_text) = <<<<"a">>, <<"a">>, <<"a">>>> /\ chunk_size = 2) =>
               chunks = <<[chunk_id |-> 0, text |-> <<"a", NL, NL, "a">>, word_count |-> 2],
                          [chunk_id |-> 1, text |-> <<"a">>, word_count |-> 1]>>

C4_Witness ==
    /\ cpc = "chunked"
    /\ Paragraphs(full_text) = <<<<"a">>, <<"a">>, <<"a">>>>
    /\ chunk_size = 2
    /\ Len(chunks) = 2

\* C5: joining the chunk texts in chunk_id order with a blank line gives
\* the non-empty paragraphs of the input, in order, joined by a blank line:
\* the input up to whitespace.
C5_ChunkRoundTrip ==
    cpc = "chunked" =>
        /\ extract_text_from_json_document(chunks) = JoinBlank(Paragraphs(full_text))
        /\ Paragraphs(extract_text_from_json_document(chunks)) = Paragraphs(full_text)
        /\ Words(extract_text_from_json_document(chunks)) = Words(full_text)

\* several chunks, and a text that the round trip changes in its whitespace
C5_Witness ==
    /\ cpc = "chunked"
    /\ Len(chunks) >= 2
    /\ extract_text_from_json_document(chunks) # full_text

(***************************************************************************)
(* Properties of classify_document_type (ClassSpec)                        *)
(***************************************************************************)
\* the rules one of whose keywords occurs in the lowercased string
MatchingRules(s) ==
    {i \in 1..Len(patterns) : AnyKeywordIn(patterns[i].keywords, Lower(s))}

FirstRuleType(rs) == patterns[CHOOSE i \in rs : \A j \in rs : i <= j].type

\* C6: a rule matching the file name decides the type whatever the text
\* holds; the text is consulted only when no rule matches the file name.
C6_FilenamePrecedence ==
    kpc = "done" =>
        IF MatchingRules(filename) # {}
        THEN doc_type = FirstRuleType(MatchingRules(filename))
        ELSE IF MatchingRules(text_sample) # {}
        THEN doc_type = FirstRuleType(MatchingRules(text_sample))
        ELSE doc_type = "document"

(***************************************************************************)
(* Properties of create_mcp_index (IndexSpec)                              *)
(***************************************************************************)
\* the ids found in the buckets of a bucket map
BucketIds(m) == UNION {Range(m[k]) : k \in DOMAIN m}

\* C7: every id in a by_type, by_folder or keywords bucket is a key of the
\* documents map.
C7_ReferentialIntegrity ==
    ipc = "done" =>
        BucketIds(built.by_type) \cup BucketIds(built.by_folder)
            \cup BucketIds(built.keywords) \subseteq DOMAIN built.documents

C7_Witness ==
    /\ ipc = "done"
    /\ BucketIds(built.keywords) # {}
    /\ DOMAIN built.documents # {}
    /\ \E i \in 1..Len(documents) : documents[i].status = "error"

(***************************************************************************)
(* Properties of the batch driver (Spec)                                   *)
(***************************************************************************)
\* a step of the loop body: extract_content has been called on a file
LoopStep == pc = "loop" /\ attempts' # attempts

\* the loop visits one file it had not visited, and is left only when
\* every discovered file has been visited once
EachFileOnce ==
    /\ LoopStep =>
         \E f \in todo :
            /\ attempts[f] = 0
            /\ attempts' = [attempts EXCEPT ![f] = 1]
            /\ todo' = todo \ {f}
    /\ (pc = "loop" /\ pc' # "loop") => \A f \in tree : attempts[f] = 1

ErrorArea(p) == Len(p.dir) >= 1 /\ p.dir[1] = "errors"

\* the step writes exactly one file, an error record, below errors/
OneErrorRecordWritten ==
    \E p \in DOMAIN fs' : ErrorArea(p) /\ fs' = Put(fs, p, result')

IndexWritten == IndexPath \in DOMAIN fs /\ pc \in {"folder_map", "summary", "done"}

\* number of positions of bucket b holding id
Occurrences(b, id) == Cardinality({i \in 1..Len(b) : b[i] = id})

\* id is in exactly one bucket of m, once
InOneBucketOnce(m, id) ==
    /\ Cardinality({k \in DOMAIN m : id \in Range(m[k])}) = 1
    /\ \A k \in DOMAIN m : Occurrences(m[k], id) <= 1

\* C8: every successfully processed document's id is in exactly one
\* by_type bucket and exactly one by_folder bucket of the index, once.
C8_BucketMembership ==
    IndexWritten =>
        \A i \in 1..Len(all_documents) :
            /\ InOneBucketOnce(fs[IndexPath].by_type, all_documents[i].document_id)
            /\ InOneBucketOnce(fs[IndexPath].by_folder, all_documents[i].document_id)

\* C9: two distinct source files successfully processed in the same run
\* have different document ids.
C9_UniqueIds ==
    \A i, j \in 1..Len(all_documents) :
        i # j => all_documents[i].document_id # all_documents[j].document_id

Artifacts == {IndexPath, FolderMapPath}
RecordFiles == {p \in DOMAIN fs \ Artifacts : fs[p].status = "success"}
ErrorFiles == {p \in DOMAIN fs \ Artifacts : fs[p].status = "error"}

RECURSIVE SumCounts(_, _)
SumCounts(m, ks) ==
    IF ks = {} THEN 0
    ELSE LET k == CHOOSE x \in ks : TRUE IN m[k].count + SumCounts(m, ks \ {k})

\* C10: after a run with k successfully processed and m failed files there
\* are k record files and m error records under the output root, k ids in
\* the index and the folder counts add up to k.  Stated for the runs in
\* which no write was refused (save_errors = 0).
C10_BatchConsistency ==
    (pc = "done" /\ save_errors = 0) =>
        /\ Cardinality(RecordFiles) = processed_count
        /\ Cardinality(ErrorFiles) = failed_count
        /\ Cardinality(DOMAIN fs[IndexPath].documents) = processed_count
        /\ SumCounts(fs[FolderMapPath], DOMAIN fs[FolderMapPath]) = processed_count

(***************************************************************************)
(* Properties of the folder map (Spec)                                     *)
(***************************************************************************)
\* the folder map has been written by this run
FolderMapWritten == pc \in {"summary", "done"}

RECURSIVE SumValues(_, _)
SumValues(m, ks) ==
    IF ks = {} THEN 0
    ELSE LET k == CHOOSE x \in ks : TRUE IN m[k] + SumValues(m, ks \ {k})

RunEnded == pc \in {"done", "crashed"}

\* the source path of a file, as extract_content records it
SourcePath(f) == MkPath(f.dir, f.stem)

\* the files of this run that are in the accumulator
Accumulated == {f \in tree : \E i \in 1..Len(all_documents) :
                    all_documents[i].metadata.relative_path = SourcePath(f)}

\* C12: at the end of a run every file whose processing failed still has
\* its own error record on disk.  Stated for the runs in which no
\* save_extraction call was refused (save_errors = 0), where the failed
\* files are the visited files that are not in the accumulator.
C12_ErrorRecordsKept ==
    (RunEnded /\ todo = {} /\ save_errors = 0) =>
        \A f \in tree \ Accumulated :
            \E p \in ErrorFiles : fs[p].file = SourcePath(f)

\* a loop step in which extraction succeeded and save_extraction returned False
SaveRefused == LoopStep /\ result'.status = "success" /\ save_errors' # save_errors

\* C13: when extraction succeeds but the record cannot be persisted, the
\* file is counted as failed and given an error record, it is not added to
\* the accumulator, and the loop goes on.
C13_WriteFailureRecorded ==
    [][SaveRefused =>
          /\ failed_count' = failed_count + 1
          /\ OneErrorRecordWritten
          /\ all_documents' = all_documents
          /\ processed_count' = processed_count
          /\ pc' = "loop"]_vars

(***************************************************************************)
(* Termination of a run (Spec)                                             *)
(***************************************************************************)
\* C14: whatever the per-file outcomes, a run that has written its folder
\* map and reports its counts returns without an unhandled exception.
C14_RunCompletes ==
    [][pc = "summary" => pc' = "done"]_vars

(***************************************************************************)
(* Persistence of the records (Spec)                                       *)
(***************************************************************************)
\* <output root>/<relative directory of the source>/<source stem>.json
RecordPath(doc) == MkPath(doc.metadata.relative_path.dir, doc.metadata.relative_path.name)

\* C15: at the end of a run every successfully processed input has its own
\* record file, at the mirrored path, holding its record: no two inputs
\* share the path and no later write of the run has replaced the record.
C15_RecordsPersist ==
    (RunEnded /\ todo = {}) =>
        /\ \A i \in 1..Len(all_documents) :
             /\ RecordPath(all_documents[i]) \in DOMAIN fs
             /\ fs[RecordPath(all_documents[i])] = all_documents[i]
        /\ \A i, j \in 1..Len(all_documents) :
             i # j => RecordPath(all_documents[i]) # RecordPath(all_documents[j])

(***************************************************************************)
(* A run into an output root that an earlier run has filled                *)
(***************************************************************************)
\* the record of an earlier run over the single file a.pdf
EarlierRecord == extract_content([dir |-> <<>>, stem |-> <<"a">>], TRUE, "report", <<>>, 0)

\* what that run has left below the output root: the record, the index and
\* the folder map
EarlierOutput ==
    Put(Put(save_extraction(EmptyMap, EarlierRecord, <<>>, <<>>, 0, TRUE),
            IndexPath, create_mcp_index(<<EarlierRecord>>, 0)),
        FolderMapPath, BuildFolderMap(<<EarlierRecord>>))

SecondRunInit ==
    /\ BatchLocals /\ ChunkIdle /\ ClassIdle /\ IndexIdle /\ KeywordIdle
    /\ ServeIdle /\ CacheIdle
    /\ fs = EarlierOutput
    /\ out_root = "present"

SecondRunSpec == SecondRunInit /\ [][Next]_vars

\* the index on disk is the index of exactly these records
IndexDescribes(docs) ==
    /\ IndexPath \in DOMAIN fs
    /\ fs[IndexPath] = create_mcp_index(docs, fs[IndexPath].created_at)

\* C16: once a run has handled its two artifacts, the index and the folder
\* map at the output root describe exactly the records of that run and
\* nothing of an earlier run.
C16_WholesaleRebuild ==
    pc \in {"summary", "done"} =>
        /\ IndexDescribes(all_documents)
        /\ FolderMapPath \in DOMAIN fs
        /\ fs[FolderMapPath] = BuildFolderMap(all_documents)

\* C17: when the output root cannot be created the run stops before any
\* source file is extracted: no file is attempted and no counter changes.
C17_FatalSetupAborts ==
    out_root = "blocked" =>
        /\ \A f \in tree : attempts[f] = 0
        /\ processed_count = 0
        /\ failed_count = 0

(***************************************************************************)
(* Properties of extract_keywords (KeywordSpec)                            *)
(***************************************************************************)
NotStopWord(w) == Lower(w) \notin stop_words

\* the tokens of the text that are no stop words, in text order
Candidates == SelectSeq(FindAll(kw_text, 1), NotStopWord)

CountOf(cs, w) == Cardinality({i \in 1..Len(cs) : cs[i] = w})
FirstOf(cs, w) ==
    CHOOSE i \in 1..Len(cs) : cs[i] = w /\ \A j \in 1..(i - 1) : cs[j] # w

\* v comes before w in the candidates cs: more occurrences, or as many and
\* an earlier first one
Precedes(cs, v, w) ==
    \/ CountOf(cs, v) > CountOf(cs, w)
    \/ CountOf(cs, v) = CountOf(cs, w) /\ FirstOf(cs, v) < FirstOf(cs, w)

\* C18: extract_keywords returns at most max_keywords terms, pairwise
\* distinct, none of which is a stop word when lowercased.
C18_KeywordBound ==
    wpc = "done" =>
        /\ Len(kw_result) <= max_keywords
        /\ \A i, j \in 1..Len(kw_result) : i # j => kw_result[i] # kw_result[j]
        /\ \A i \in 1..Len(kw_result) : Lower(kw_result[i]) \notin stop_words

\* the bound cuts the list, a stop word occurs in the text and a term repeats
C18_Witness ==
    /\ wpc = "done"
    /\ max_keywords > 0
    /\ Len(kw_result) = max_keywords
    /\ LET cs == Candidates
       IN  /\ Cardinality(Range(cs)) > max_keywords
           /\ \E w \in Range(cs) : CountOf(cs, w) >= 2
    /\ \E w \in Range(FindAll(kw_text, 1)) : ~NotStopWord(w)

\* C19: the returned terms are candidate tokens in non-increasing order of
\* occurrence count, equal counts in order of first occurrence, and every
\* candidate left out comes after all returned terms, the list being full.
C19_KeywordOrder ==
    wpc = "done" =>
        LET cs == Candidates
        IN  /\ Range(kw_result) \subseteq Range(cs)
            /\ \A i, j \in 1..Len(kw_result) :
                   i < j => Precedes(cs, kw_result[i], kw_result[j])
            /\ \A w \in Range(cs) \ Range(kw_result) :
                   /\ Len(kw_result) = max_keywords
                   /\ \A i \in 1..Len(kw_result) : Precedes(cs, kw_result[i], w)

\* a later, more frequent term is returned first, and of two terms of equal
\* count the earlier is returned and the later left out
C19_Witness ==
    /\ wpc = "done"
    /\ Len(kw_result) = 2
    /\ LET cs == Candidates
       IN  /\ CountOf(cs, kw_result[1]) > CountOf(cs, kw_result[2])
           /\ FirstOf(cs, kw_result[1]) > FirstOf(cs, kw_result[2])
           /\ \E w \in Range(cs) \ Range(kw_result) :
                  CountOf(cs, w) = CountOf(cs, kw_result[2])

\* three newlines in a row somewhere in s
HasNewlineRun(s) ==
    \E i \in 1..(Len(s) - 2) : s[i] = NL /\ s[i + 1] = NL /\ s[i + 2] = NL

\* C26: the normalized document text has no run of three or more newlines
\* and no leading or trailing whitespace, and normalizing it again leaves
\* it unchanged.
C26_Normalization ==
    cpc \in {"normalized", "chunked"} =>
        /\ ~HasNewlineRun(full_text)
        /\ full_text # <<>> =>
              /\ full_text[1] \notin Whitespace
              /\ full_text[Len(full_text)] \notin Whitespace
        /\ Normalize(full_text) = full_text

\* a text with leading whitespace and four newlines in a row between two
\* words has been normalized
C26_Witness ==
    /\ cpc = "normalized"
    /\ raw_text # <<>>
    /\ raw_text[1] = SP
    /\ Contains(raw_text, <<NL, NL, NL, NL>>)
    /\ full_text = <<"a", NL, NL, "a">>

(***************************************************************************)
(* Further properties of the batch driver (Spec)                           *)
(***************************************************************************)
\* names under which a record could carry the time of the failure
TimestampFields == {"timestamp", "extraction_date", "date"}

\* C22: every error record on disk carries the failed input's file name,
\* the error message and a timestamp field.
C22_ErrorRecordContent ==
    \A p \in ErrorFiles :
        /\ "file" \in DOMAIN fs[p]
        /\ "error" \in DOMAIN fs[p]
        /\ DOMAIN fs[p] \cap TimestampFields # {}

(***************************************************************************)
(* Further properties of create_mcp_index (IndexSpec)                      *)
(***************************************************************************)
\* the four maps of an index, without its creation time and count
IndexMaps(index) ==
    <<index.documents, index.by_type, index.by_folder, index.keywords>>

C24_ChunkIdNumbering ==
    cpc = "chunked" =>
        /\ \A i \in 1..Len(chunks) : chunks[i].chunk_id = i - 1
        /\ Paragraphs(full_text) = <<>> => chunks = <<>>

\* three chunks have been emitted
C24_Witness ==
    /\ cpc = "chunked"
    /\ Len(chunks) = 3
    /\ chunks[3].chunk_id = 2

\* save_extraction accepted the record of this iteration, which is on disk
\* under its own name
RecordPersisted ==
    /\ save_errors' = save_errors
    /\ RecordPath(result') \in DOMAIN fs'
    /\ fs'[RecordPath(result')] = result'

\* C25: the loop is left for the index and the folder map only when every
\* discovered file has been attempted; the accumulator changes only in the
\* loop, only by appending the record of the current iteration, and that
\* happens exactly when the extraction succeeded and the record was written.
C25_PhaseOrdering ==
    [][/\ (pc = "loop" /\ pc' # "loop") =>
             todo = {} /\ \A f \in tree : attempts[f] = 1
       /\ all_documents' # all_documents =>
             /\ LoopStep
             /\ all_documents' = Append(all_documents, result')
       /\ LoopStep =>
             ((result'.status = "success" /\ RecordPersisted)
                 <=> all_documents' = Append(all_documents, result'))]_vars

\* the run is over, one file was extracted and saved, another was extracted
\* but could not be written and is not in the accumulator
C25_Witness ==
    /\ pc = "done"
    /\ Cardinality(tree) = 2
    /\ failed_count = 0
    /\ save_errors = 1
    /\ Len(all_documents) = 1

\* C27: at the end of a run every discovered file is counted in exactly one
\* of the two counters, and processed_count is the number of records handed
\* to the index builder.
C27_CounterAccounting ==
    pc = "done" =>
        /\ processed_count + failed_count = Cardinality(tree)
        /\ processed_count = Len(all_documents)

\* the directory of the source file of a record, and its folder key
SourceDir(doc) == doc.metadata.relative_path.dir
FolderKey(doc) == FolderOf(doc.metadata.relative_path)

\* C29: two records have the same folder key exactly when their source
\* files lie in the same directory, and for every folder key the count of
\* the folder map is the number of ids the index lists under that key.
C29_FolderKeysFaithful ==
    pc \in {"summary", "done"} =>
        /\ \A i, j \in 1..Len(all_documents) :
               FolderKey(all_documents[i]) = FolderKey(all_documents[j])
                   <=> SourceDir(all_documents[i]) = SourceDir(all_documents[j])
        /\ IndexWritten =>
               /\ DOMAIN fs[FolderMapPath] = DOMAIN fs[IndexPath].by_folder
               /\ \A k \in DOMAIN fs[FolderMapPath] :
                      fs[FolderMapPath][k].count = Len(fs[IndexPath].by_folder[k])

(***************************************************************************)
(* Properties of cached_async (CacheSpec)                                  *)
(***************************************************************************)
\* a task gets past its await in this step
Resumes(t) == calls[t].at = "awaiting" /\ calls'[t].at = "returned"

\* C30: the cache never holds more than maxsize items, and a wrapper call
\* removes an item only when it inserts a key that is not cached into a
\* cache of maxsize items, the item removed being the one inserted first.
C30_FifoEviction ==
    [][/\ Len(cache') <= maxsize
       /\ \A t \in Tasks :
            Resumes(t) =>
                \A k \in CachedKeys(cache) \ CachedKeys(cache') :
                    /\ calls[t].key \notin CachedKeys(cache)
                    /\ Len(cache) = maxsize
                    /\ k = cache[1].key]_vars

(***************************************************************************)
(* Properties of the reads of the server (ResourceSpec, ToolSpec)          *)
(***************************************************************************)
\* C21: whatever the URI, handle_read_resource raises or returns the
\* content of a file that lies inside the resource root.
C21_ReadContainment ==
    response.kind = "content" => IsRelativeTo(response.file, resource_dir)

\* a file has been served for a URI that does not spell its path the plain
\* way, on a machine with a link that leads out of the resource root
C21_Witness ==
    /\ disk = LinkedMachine
    /\ response.kind = "content"
    /\ IsRelativeTo(response.file, examples_dir)
    /\ Len(request.uri) >
           Len(URI_PREFIX) + Len(response.file[3]) + 1 + Len(response.file[4])

\* the file name has a ".." or a path separator in it
HasPathSyntax(s) ==
    Contains(s, <<".", ".">>) \/ \E i \in 1..Len(s) : s[i] = "/"

\* C28: the two reading tools return the content of files of their own
\* directory only, and a filename with ".." or a path separator in it gets
\* an error.
C28_ToolReadContainment ==
    request.kind = "tool" =>
        /\ response.kind = "text" =>
               IsRelativeTo(response.file, ToolDirectory(request.name))
        /\ HasPathSyntax(request.filename) => response.kind = "error_text"

=============================================================================
